---- MODULE Spec2Model ----
(***************************************************************************)
(* Model of packages/strapi/lib/commands/configurationRestore.js: the      *)
(* configuration restore command.  It reads a JSON document, loads the     *)
(* application, parses and validates the document, creates the importer of *)
(* the chosen strategy (replace, merge, keep) and imports the records one  *)
(* after the other into the core_store collection.                        *)
(***************************************************************************)
EXTENDS Integers, Sequences, FiniteSets, TLC

VARIABLES
  opt,        \* the strategy option passed to the command ("undefined": not given)
  content,    \* what the file or stdin holds
  pc,         \* position of the command's async function
  appLoaded,  \* strapi().load() has resolved: app.db is available
  data,       \* dataToImport
  importer,   \* the importer createImporter returned ("none" before)
  next,       \* index of the next element of dataToImport the for-of loop takes
  imp,        \* the importer.import(config) calls in flight
  store,      \* the core_store collection: a sequence of entries
  calls,      \* the store calls issued so far, in order
  error,      \* the error the command rejected with ("none": none)
  message,    \* what console.log printed (NoMessage: nothing yet)
  exitCode,   \* the status process.exit was called with (NotExited: not yet)
  detail,     \* what the error message names: the parse error, the strategy
  peer,       \* a second restore command running against the same collection
  store0,     \* history: the collection when the command started
  snap        \* history: the collection when the latest import call started

vars == <<opt, content, pc, appLoaded, data, importer, next, imp, store, calls,
          error, message, exitCode, detail, peer, store0, snap>>

(***************************************************************************)
(* Bounds of the model.                                                    *)
(***************************************************************************)
MaxLen == 2      \* longest input array of the restore runs
MaxArr == 2      \* longest array value inside a payload

(***************************************************************************)
(* JSON values, tagged by their kind.                                      *)
(***************************************************************************)
Num(n) == [t |-> "num", v |-> n]
Str(s) == [t |-> "str", v |-> s]
Bool(b) == [t |-> "bool", v |-> b]
Null == [t |-> "null", v |-> 0]
Arr(s) == [t |-> "arr", v |-> s]
Map(f) == [t |-> "map", v |-> f]
Undefined == [t |-> "undefined", v |-> 0]

IsArray(val) == val.t = "arr"
\* a check that lets every value whose typeof is "object" through
ArrayIsArray_TypeofObject(val) == val.t \in {"arr", "map", "null"}
\* a check that also turns an array without elements away
ArrayIsArray_NonEmpty(val) == val.t = "arr" /\ val.v # <<>>
ArrayIsArray(val) == val.t = "arr"
IsPlainObject(val) == val.t = "map"
IsObject(val) == val.t \in {"arr", "map"}
Fields(val) == DOMAIN val.v
Has(val, f) == IsPlainObject(val) /\ f \in Fields(val)
Get(val, f) == IF Has(val, f) THEN val.v[f] ELSE Undefined
KeyOf(conf) == Get(conf, "key")

Max(a, b) == IF a >= b THEN a ELSE b

(***************************************************************************)
(* _.merge(object, source) of lodash 4: every property of source is merged *)
(* into object.  A source array merges index by index into a destination   *)
(* array (into a fresh [] when the destination is no array); a source      *)
(* plain object merges into a destination object (a plain object or an     *)
(* array; into a fresh {} when the destination is no object); any other    *)
(* source value is assigned.  Properties a source plain object sets on a   *)
(* destination array are string-keyed and not part of the array's JSON     *)
(* form, so the array is kept as it is.                                    *)
(***************************************************************************)
RECURSIVE MergeInto(_, _)
RECURSIVE MergeValue(_, _)
MergeValue(objValue, srcValue) ==
  IF IsArray(srcValue)
    THEN MergeInto(IF IsArray(objValue) THEN objValue ELSE Arr(<<>>), srcValue)
    ELSE IF IsPlainObject(srcValue)
      THEN MergeInto(IF IsObject(objValue) THEN objValue ELSE Map(<<>>), srcValue)
      ELSE srcValue

MergeInto(object, source) ==
  IF IsPlainObject(object) /\ IsPlainObject(source)
    THEN Map([f \in Fields(object) \cup Fields(source) |->
                IF f \in Fields(source)
                  THEN MergeValue(Get(object, f), source.v[f])
                  ELSE object.v[f]])
    ELSE IF IsArray(object) /\ IsArray(source)
      THEN Arr([i \in 1..Max(Len(object.v), Len(source.v)) |->
                  IF i <= Len(source.v)
                    THEN MergeValue(IF i <= Len(object.v) THEN object.v[i]
                                                          ELSE Undefined,
                                    source.v[i])
                    ELSE object.v[i]])
      ELSE object

Merge(object, source) == MergeInto(object, source)

(***************************************************************************)
(* The core_store collection (db.query('core_store')): a sequence of       *)
(* entries, each a record with a key.  count and find read it, create adds *)
(* an entry, update sets the payload of the entries the filter matches.    *)
(***************************************************************************)
Matching(s, k) == {i \in 1..Len(s) : KeyOf(s[i]) = k}
Count(s, k) == Cardinality(Matching(s, k))
Find(s, k) ==
  IF Matching(s, k) = {} THEN Undefined
  ELSE s[CHOOSE i \in Matching(s, k) : \A j \in Matching(s, k) : i <= j]
Create(s, conf) == Append(s, conf)
Update(s, k, conf) == [i \in 1..Len(s) |-> IF KeyOf(s[i]) = k THEN conf ELSE s[i]]

(***************************************************************************)
(* The three importers: what import(conf) writes, given what its read of   *)
(* the collection returned.                                                *)
(***************************************************************************)
NoWrite == [op |-> "none", payload |-> Undefined]
WriteOp(op, payload) == [op |-> op, payload |-> payload]

\* a replace importer that, like keep, leaves an existing entry alone
ReplaceWrite_NoUpdate(matching, existingConf, conf) ==
  IF matching > 0 THEN NoWrite ELSE WriteOp("create", conf)

ReplaceWrite(matching, existingConf, conf) ==
  IF matching > 0 THEN WriteOp("update", conf) ELSE WriteOp("create", conf)

\* a merge importer that takes whatever find returns for an entry
MergeWrite_AlwaysUpdate(matching, existingConf, conf) ==
  WriteOp("update", IF existingConf # Undefined THEN Merge(existingConf, conf) ELSE conf)

\* a merge importer that merges one level only: { ...existingConf, ...conf }
MergeWrite_Shallow(matching, existingConf, conf) ==
  IF existingConf # Undefined
    THEN WriteOp("update",
                 Map([f \in Fields(existingConf) \cup Fields(conf) |->
                        IF f \in Fields(conf) THEN conf.v[f] ELSE existingConf.v[f]]))
    ELSE WriteOp("create", conf)

\* a merge importer with the arguments of _.merge swapped: the existing values win
MergeWrite_Swapped(matching, existingConf, conf) ==
  IF existingConf # Undefined
    THEN WriteOp("update", Merge(conf, existingConf))
    ELSE WriteOp("create", conf)

\* a merge importer that appends an incoming array to the existing one
MergeWrite_ConcatArrays(matching, existingConf, conf) ==
  IF existingConf # Undefined
    THEN WriteOp("update",
                 Map([f \in Fields(existingConf) \cup Fields(conf) |->
                        IF f \notin Fields(conf) THEN existingConf.v[f]
                        ELSE IF IsArray(conf.v[f]) /\ IsArray(Get(existingConf, f))
                          THEN Arr(existingConf.v[f].v \o conf.v[f].v)
                          ELSE MergeValue(Get(existingConf, f), conf.v[f])]))
    ELSE WriteOp("create", conf)

MergeWrite(matching, existingConf, conf) ==
  IF existingConf # Undefined
    THEN WriteOp("update", Merge(existingConf, conf))
    ELSE WriteOp("create", conf)

\* a keep importer that overwrites an existing entry
KeepWrite_Overwrite(matching, existingConf, conf) ==
  IF matching > 0 THEN WriteOp("update", conf) ELSE WriteOp("create", conf)

\* a keep importer that creates without looking at the count
KeepWrite_AlwaysCreate(matching, existingConf, conf) == WriteOp("create", conf)

KeepWrite(matching, existingConf, conf) ==
  IF matching > 0 THEN NoWrite ELSE WriteOp("create", conf)

\* a merge importer that checks with count, like the other two
ReadOp_AlwaysCount(strategy) == "count"

ReadOp(strategy) == IF strategy = "merge" THEN "find" ELSE "count"

ImporterWrite(strategy, matching, existingConf, conf) ==
  CASE strategy = "replace" -> ReplaceWrite(matching, existingConf, conf)
    [] strategy = "merge" -> MergeWrite(matching, existingConf, conf)
    [] strategy = "keep" -> KeepWrite(matching, existingConf, conf)

Strategies == {"replace", "merge", "keep"}

\* a createImporter whose default case returns the replace importer
CreateImporter_DefaultReplace(strategy) ==
  IF strategy \in Strategies THEN strategy ELSE "replace"

\* createImporter: the importer of a strategy, or none (it throws)
CreateImporter(strategy) == IF strategy \in Strategies THEN strategy ELSE "none"

\* a strategy parameter whose default is merge
Strategy_DefaultMerge == IF opt = "undefined" THEN "merge" ELSE opt

\* the strategy parameter and its default
Strategy == IF opt = "undefined" THEN "replace" ELSE opt

(***************************************************************************)
(* The input document and JSON.parse.                                      *)
(***************************************************************************)
TextDoc(text) == [kind |-> "text", text |-> text, items |-> <<>>]
ArrayDoc(s) == [kind |-> "array", text |-> "", items |-> s]

ParseOk(val) == [ok |-> TRUE, value |-> val, msg |-> ""]
ParseError(msg) == [ok |-> FALSE, value |-> Undefined, msg |-> msg]

JSONParse(doc) ==
  IF doc.kind = "array" THEN ParseOk(Arr(doc.items))
  ELSE CASE doc.text = "" -> ParseError("Unexpected end of JSON input")
         [] doc.text = "{bad" -> ParseError("Unexpected token b in JSON")
         [] doc.text = "\"not an array\"" -> ParseOk(Str("not an array"))
         [] doc.text = "{\"key\":\"a\"}" -> ParseOk(Map([key |-> Str("a")]))
         [] doc.text = "42" -> ParseOk(Num(42))
         [] doc.text = "null" -> ParseOk(Null)

Texts == {"", "{bad", "\"not an array\"", "{\"key\":\"a\"}", "42", "null"}

(***************************************************************************)
(* The inputs of the model.  Restore runs take arrays of up to MaxLen      *)
(* small records over two keys against every small collection; merge runs  *)
(* of one record take the existing entry and the incoming record from a    *)
(* universe of nested payloads; the examples of the specification are      *)
(* runs of their own.                                                      *)
(***************************************************************************)
SeqsUpTo(S, n) == UNION {[1..k -> S] : k \in 0..n}
MapsOver(F, S) == UNION {[D -> S] : D \in SUBSET F}

Keys == {"a", "b"}
Rec(k, f) == Map([x \in {"key"} \cup DOMAIN f |-> IF x = "key" THEN Str(k) ELSE f[x]])

SmallConfs ==
  {Rec(k, p) : k \in Keys, p \in {[v |-> Num(1)], [v |-> Num(2)], [w |-> Num(1)]}}
SmallEntries(k) ==
  {Rec(k, p) : p \in {[v |-> Num(1)], [v |-> Num(2), other |-> Str("keep")]}}
SmallStores ==
  {sa \o sb : sa \in {<<>>} \cup {<<e>> : e \in SmallEntries("a")},
              sb \in {<<>>} \cup {<<e>> : e \in SmallEntries("b")}}

Scalars == {Num(1), Num(2), Null}
Val1 == Scalars
          \cup {Arr(s) : s \in SeqsUpTo({Num(1), Num(2)}, MaxArr)}
          \cup {Map(f) : f \in MapsOver({"x", "y"}, Scalars)}
Val2 == Val1 \cup {Map([x |-> val]) : val \in Val1} \cup {Arr(<<val>>) : val \in Val1}
RichRec(val, other) ==
  Rec("a", [f \in (IF val = Undefined THEN {} ELSE {"value"})
                    \cup (IF other THEN {"other"} ELSE {}) |->
              IF f = "value" THEN val ELSE Str("keep")])
RichEntries == {RichRec(val, other) : val \in Val2 \cup {Undefined}, other \in BOOLEAN}
RichConfs == {RichRec(val, FALSE) : val \in Val2 \cup {Undefined}}

ExampleNestedEntry ==
  Rec("a", [nested |-> Map([x |-> Num(1), y |-> Num(2)]), other |-> Str("keep")])
ExampleNestedConf == Rec("a", [nested |-> Map([y |-> Num(99)])])
ExampleNestedResult ==
  Rec("a", [nested |-> Map([x |-> Num(1), y |-> Num(99)]), other |-> Str("keep")])
ExampleScalarEntry == Rec("a", [value |-> Num(1)])
ExampleScalarConf == Rec("a", [value |-> Map([nested |-> Bool(TRUE)])])

Options == {"undefined", "replace", "merge", "keep", "foo"}

NoMessage == [count |-> 0 - 1, strategy |-> "none"]
NotExited == 0 - 1

InitRun ==
  /\ opt \in Options
  /\ content \in {TextDoc(t) : t \in Texts}
                   \cup {ArrayDoc(s) : s \in SeqsUpTo(SmallConfs, MaxLen)}
  /\ store \in SmallStores

InitMerge ==
  /\ opt = "merge"
  /\ \E c \in RichConfs : content \in {ArrayDoc(<<c>>), ArrayDoc(<<c, c>>)}
  /\ store \in {<<e>> : e \in RichEntries}

InitExamples ==
  /\ opt = "merge"
  /\ \/ store = <<ExampleNestedEntry>> /\ content = ArrayDoc(<<ExampleNestedConf>>)
     \/ store = <<ExampleScalarEntry>> /\ content = ArrayDoc(<<ExampleScalarConf>>)

\* the same array restored twice in a row
InitTwice ==
  /\ opt \in Strategies
  /\ \E s \in SeqsUpTo(SmallConfs, MaxLen) : content = ArrayDoc(s \o s)
  /\ store \in SmallStores

NoPeer == [pc |-> "none", strategy |-> "none", conf |-> Undefined,
           matching |-> 0, existingConf |-> Undefined]

InitCommand ==
  /\ pc = "start"
  /\ appLoaded = FALSE
  /\ data = <<>>
  /\ importer = "none"
  /\ next = 1
  /\ imp = {}
  /\ calls = <<>>
  /\ error = "none"
  /\ message = NoMessage
  /\ exitCode = NotExited
  /\ detail = ""
  /\ store0 = store
  /\ snap = store

Init ==
  /\ (InitRun \/ InitMerge \/ InitExamples \/ InitTwice)
  /\ InitCommand
  /\ peer = NoPeer

(***************************************************************************)
(* The command, step by step.                                              *)
(***************************************************************************)
\* const input = filePath ? fs.readFileSync(filePath) : await readStdin(...)
ReadInput ==
  /\ pc = "start"
  /\ pc' = "load"
  /\ UNCHANGED <<opt, content, appLoaded, data, importer, next, imp, store,
                 calls, error, message, exitCode, store0, snap, detail, peer>>

\* const app = await strapi().load()
LoadApp ==
  /\ pc = "load"
  /\ appLoaded' = TRUE
  /\ pc' = "parse"
  /\ UNCHANGED <<opt, content, data, importer, next, imp, store, calls, error,
                 message, exitCode, store0, snap, detail, peer>>

\* what the array check lets through to the loop
Items(val) == IF IsArray(val) THEN val.v ELSE <<>>

\* JSON.parse(input) throws: Invalid input data: <message>. Expected a valid JSON array.
ParseFail ==
  /\ pc = "parse"
  /\ ~JSONParse(content).ok
  /\ pc' = "failed"
  /\ error' = "InvalidInput"
  /\ detail' = JSONParse(content).msg
  /\ UNCHANGED <<opt, content, appLoaded, data, importer, next, imp, store,
                 calls, message, exitCode, store0, snap, peer>>

\* !Array.isArray(dataToImport): Invalid input data. Expected a valid JSON array.
NotArray ==
  /\ pc = "parse"
  /\ JSONParse(content).ok
  /\ ~ArrayIsArray(JSONParse(content).value)
  /\ pc' = "failed"
  /\ error' = "InvalidInput"
  /\ detail' = ""
  /\ UNCHANGED <<opt, content, appLoaded, data, importer, next, imp, store,
                 calls, message, exitCode, store0, snap, peer>>

ParseArray ==
  /\ pc = "parse"
  /\ JSONParse(content).ok
  /\ ArrayIsArray(JSONParse(content).value)
  /\ data' = Items(JSONParse(content).value)
  /\ pc' = "create_importer"
  /\ UNCHANGED <<opt, content, appLoaded, importer, next, imp, store, calls,
                 error, message, exitCode, store0, snap, detail, peer>>

\* const importer = createImporter(app.db, strategy)
MakeImporter ==
  /\ pc = "create_importer"
  /\ CreateImporter(Strategy) # "none"
  /\ importer' = CreateImporter(Strategy)
  /\ pc' = "loop"
  /\ UNCHANGED <<opt, content, appLoaded, data, next, imp, store, calls,
                 error, message, exitCode, store0, snap, detail, peer>>

\* default: throw new Error(`No importer available for strategy "${strategy}"`)
NoImporter ==
  /\ pc = "create_importer"
  /\ CreateImporter(Strategy) = "none"
  /\ pc' = "failed"
  /\ error' = "UnsupportedStrategy"
  /\ detail' = Strategy
  /\ UNCHANGED <<opt, content, appLoaded, data, importer, next, imp, store,
                 calls, message, exitCode, store0, snap, peer>>

\* importer.import(config) without the await
Awaited_FireAndForget(inflight) == TRUE

\* await importer.import(config): the loop goes on once the call has settled
Awaited(inflight) == inflight = {}

\* a loop that walks the array from its end
RecordAt_Reversed(d, i) == d[Len(d) + 1 - i]

\* the element the for-of loop takes at its i-th turn
RecordAt(d, i) == d[i]

\* for (const config of dataToImport) importer.import(config)
StartImport ==
  /\ pc = "loop"
  /\ next <= Len(data)
  /\ Awaited(imp)
  /\ imp' = imp \cup {[idx |-> next, pc |-> "read", matching |-> 0,
                       existingConf |-> Undefined]}
  /\ next' = next + 1
  /\ snap' = store
  /\ UNCHANGED <<opt, content, pc, appLoaded, data, importer, store, calls,
                 error, message, exitCode, store0, detail, peer>>

\* an importer that looks at the collection once and keeps what it saw
Queried_Cached == store0

\* db.query('core_store'): every call goes to the collection as it is now
Queried == store

\* a filter that is built once, from the first record
UpdateFilter_FirstRecord(conf) == KeyOf(data[1])

\* { key: conf.key }
UpdateFilter(conf) == KeyOf(conf)

Call(op, k, i, ok, found) == [op |-> op, key |-> k, rec |-> i, ok |-> ok, found |-> found]

\* await db.query('core_store').count / find ({ key: conf.key })
ReadStore(a) ==
  /\ pc = "loop"
  /\ a.pc = "read"
  /\ LET k == KeyOf(RecordAt(data, a.idx))
         op == ReadOp(importer)
     IN /\ calls' = Append(calls, Call(op, k, a.idx, TRUE, Count(Queried, k) > 0))
        /\ imp' = (imp \ {a}) \cup
                    {[a EXCEPT !.pc = "write",
                               !.matching = IF op = "count" THEN Count(Queried, k) ELSE 0,
                               !.existingConf = IF op = "find" THEN Find(Queried, k)
                                                               ELSE Undefined]}
  /\ UNCHANGED <<opt, content, pc, appLoaded, data, importer, next, store,
                 error, message, exitCode, store0, snap, detail, peer>>

WriteOf(a) == ImporterWrite(importer, a.matching, a.existingConf, RecordAt(data, a.idx))

\* await db.query('core_store').create(conf), and import returns
WriteCreate(a) ==
  /\ pc = "loop"
  /\ a.pc = "write"
  /\ WriteOf(a).op = "create"
  /\ store' = Create(store, WriteOf(a).payload)
  /\ calls' = Append(calls, Call("create", KeyOf(RecordAt(data, a.idx)), a.idx, TRUE, FALSE))
  /\ imp' = imp \ {a}
  /\ UNCHANGED <<opt, content, pc, appLoaded, data, importer, next, error,
                 message, exitCode, store0, snap, detail, peer>>

\* await db.query('core_store').update({ key: conf.key }, ...), and import returns
WriteUpdate(a) ==
  /\ pc = "loop"
  /\ a.pc = "write"
  /\ WriteOf(a).op = "update"
  /\ store' = Update(store, UpdateFilter(RecordAt(data, a.idx)), WriteOf(a).payload)
  /\ calls' = Append(calls, Call("update", KeyOf(RecordAt(data, a.idx)), a.idx, TRUE, FALSE))
  /\ imp' = imp \ {a}
  /\ UNCHANGED <<opt, content, pc, appLoaded, data, importer, next, error,
                 message, exitCode, store0, snap, detail, peer>>

\* the keep importer's return: the configuration exists and is not overwritten
SkipWrite(a) ==
  /\ pc = "loop"
  /\ a.pc = "write"
  /\ WriteOf(a).op = "none"
  /\ imp' = imp \ {a}
  /\ UNCHANGED <<opt, content, pc, appLoaded, data, importer, next, store,
                 calls, error, message, exitCode, store0, snap, detail, peer>>

\* a loop that catches the rejection and goes on with the next record
OnStoreFailure_Swallowed == [pc |-> "loop", error |-> "none"]

\* what a rejected store call does to the command: nothing catches it
OnStoreFailure == [pc |-> "failed", error |-> "StoreOperationFailure"]

\* the store call import is about to issue rejects
StoreFail(a) ==
  /\ pc = "loop"
  /\ a.pc = "read" \/ WriteOf(a).op # "none"
  /\ calls' = Append(calls, Call(IF a.pc = "read" THEN ReadOp(importer) ELSE WriteOf(a).op,
                                 KeyOf(RecordAt(data, a.idx)), a.idx, FALSE, FALSE))
  /\ imp' = imp \ {a}
  /\ pc' = OnStoreFailure.pc
  /\ error' = OnStoreFailure.error
  /\ detail' = ""
  /\ UNCHANGED <<opt, content, appLoaded, data, importer, next, store,
                 message, exitCode, store0, snap, peer>>

\* a summary that counts the writes instead of the records
ReportedCount_Writes(d) == Len(SelectSeq(calls, LAMBDA c : c.op \in {"create", "update"}))

\* ${dataToImport.length}
ReportedCount(d) == Len(d)

\* console.log(`Successfully imported ${dataToImport.length} configuration entries
\* using the "${strategy}" strategy.`)
Report ==
  /\ pc = "loop"
  /\ next > Len(data)
  /\ Awaited(imp)
  /\ message' = [count |-> ReportedCount(data), strategy |-> Strategy]
  /\ pc' = "exit"
  /\ UNCHANGED <<opt, content, appLoaded, data, importer, next, imp, store,
                 calls, error, exitCode, store0, snap, detail, peer>>

\* process.exit(0)
Exit ==
  /\ pc = "exit"
  /\ exitCode' = 0
  /\ pc' = "done"
  /\ UNCHANGED <<opt, content, appLoaded, data, importer, next, imp, store,
                 calls, error, message, store0, snap, detail, peer>>

Next ==
  \/ ReadInput
  \/ LoadApp
  \/ ParseFail
  \/ NotArray
  \/ ParseArray
  \/ MakeImporter
  \/ NoImporter
  \/ StartImport
  \/ \E a \in imp : ReadStore(a)
  \/ \E a \in imp : WriteCreate(a)
  \/ \E a \in imp : WriteUpdate(a)
  \/ \E a \in imp : SkipWrite(a)
  \/ \E a \in imp : StoreFail(a)
  \/ Report
  \/ Exit

Spec == Init /\ [][Next]_vars

(***************************************************************************)
(* A second restore command against the same collection: it has one record *)
(* to import and its store calls interleave with those of the first.       *)
(***************************************************************************)
PeerWrite == ImporterWrite(peer.strategy, peer.matching, peer.existingConf, peer.conf)

\* await db.query('core_store').count / find ({ key: conf.key })
PeerRead ==
  /\ peer.pc = "read"
  /\ peer' = [peer EXCEPT
               !.pc = "write",
               !.matching = IF ReadOp(peer.strategy) = "count"
                              THEN Count(store, KeyOf(peer.conf)) ELSE 0,
               !.existingConf = IF ReadOp(peer.strategy) = "find"
                                  THEN Find(store, KeyOf(peer.conf)) ELSE Undefined]
  /\ UNCHANGED <<opt, content, pc, appLoaded, data, importer, next, imp, store,
                 calls, error, message, exitCode, detail, store0, snap>>

\* await db.query('core_store').create(conf)
PeerCreate ==
  /\ peer.pc = "write"
  /\ PeerWrite.op = "create"
  /\ store' = Create(store, PeerWrite.payload)
  /\ peer' = [peer EXCEPT !.pc = "done"]
  /\ UNCHANGED <<opt, content, pc, appLoaded, data, importer, next, imp,
                 calls, error, message, exitCode, detail, store0, snap>>

\* await db.query('core_store').update({ key: conf.key }, ...)
PeerUpdate ==
  /\ peer.pc = "write"
  /\ PeerWrite.op = "update"
  /\ store' = Update(store, UpdateFilter(peer.conf), PeerWrite.payload)
  /\ peer' = [peer EXCEPT !.pc = "done"]
  /\ UNCHANGED <<opt, content, pc, appLoaded, data, importer, next, imp,
                 calls, error, message, exitCode, detail, store0, snap>>

\* the keep importer's return
PeerSkip ==
  /\ peer.pc = "write"
  /\ PeerWrite.op = "none"
  /\ peer' = [peer EXCEPT !.pc = "done"]
  /\ UNCHANGED <<opt, content, pc, appLoaded, data, importer, next, imp, store,
                 calls, error, message, exitCode, detail, store0, snap>>

\* records in the first command's array when a second command runs beside it
ConcLen == 1

Peers ==
  {[pc |-> "read", strategy |-> st, conf |-> c, matching |-> 0,
    existingConf |-> Undefined] : st \in Strategies, c \in SmallConfs}

ConcInit ==
  /\ opt \in Options
  /\ content \in {TextDoc(t) : t \in Texts}
                   \cup {ArrayDoc(s) : s \in SeqsUpTo(SmallConfs, ConcLen)}
  /\ store \in SmallStores
  /\ InitCommand
  /\ peer \in Peers

ConcNext == Next \/ PeerRead \/ PeerCreate \/ PeerUpdate \/ PeerSkip

ConcSpec == ConcInit /\ [][ConcNext]_vars

\* The restore runs alone, with the event loop running every continuation that is
\* ready: a settled await is resumed, a store call that was issued settles.
LiveInit == InitRun /\ InitCommand /\ peer = NoPeer
LiveSpec == LiveInit /\ [][Next]_vars /\ WF_vars(Next)

(***************************************************************************)
(* What the properties below speak of.                                     *)
(***************************************************************************)
\* an import call has returned and the loop has not started the next one
Completed == pc \in {"loop", "exit", "done"} /\ imp = {} /\ next > 1
\* the record of that call, its key, and the store calls it issued
LastConf == data[next - 1]
LastKey == KeyOf(LastConf)
CallsOf(i) == SelectSeq(calls, LAMBDA c : c.rec = i)
ReadOps == {"count", "find"}
WriteOps == {"create", "update"}

(***************************************************************************)
(* C1: under each of the three strategies, importing a record whose key    *)
(* the store does not hold when the call starts leaves exactly one entry   *)
(* for that key, equal to the record; the read (count or find) reported    *)
(* nothing and the call issued a create and no update.                     *)
(***************************************************************************)
C1_AbsentKeyCreated ==
  (Completed /\ Count(snap, LastKey) = 0) =>
    /\ Count(store, LastKey) = 1
    /\ Find(store, LastKey) = LastConf
    /\ Len(CallsOf(next - 1)) = 2
    /\ CallsOf(next - 1)[1].op = ReadOp(importer)
    /\ CallsOf(next - 1)[1].ok /\ ~CallsOf(next - 1)[1].found
    /\ CallsOf(next - 1)[2].op = "create"
    /\ CallsOf(next - 1)[2].ok

C1_Witness ==
  /\ Completed
  /\ importer = "merge"
  /\ Count(snap, LastKey) = 0
  /\ Len(snap) = 1
  /\ Find(store, LastKey) = LastConf

(***************************************************************************)
(* C2: under replace, importing a record whose key the store holds leaves  *)
(* exactly one entry for that key and its payload is the record verbatim:  *)
(* nothing of the former payload survives.                                 *)
(***************************************************************************)
C2_ReplaceOverwrites ==
  (Completed /\ importer = "replace" /\ Count(snap, LastKey) > 0) =>
    /\ Count(store, LastKey) = 1
    /\ Find(store, LastKey) = LastConf

C2_Witness ==
  /\ Completed
  /\ importer = "replace"
  /\ Has(Find(snap, LastKey), "other")
  /\ ~Has(LastConf, "other")
  /\ Find(store, LastKey) = LastConf

(***************************************************************************)
(* C3: under keep, an import whose key the store holds issues no create    *)
(* and no update and leaves the store as it was; through a whole run no    *)
(* update is issued, no create is issued for a key the store held before   *)
(* the run, and every entry of before the run keeps its payload.           *)
(***************************************************************************)
C3_KeepPreserves ==
  importer = "keep" =>
    /\ \A i \in 1..Len(store0) : i <= Len(store) /\ store[i] = store0[i]
    /\ \A p \in 1..Len(calls) :
         /\ calls[p].op # "update"
         /\ calls[p].op = "create" => Count(store0, calls[p].key) = 0
    /\ (Completed /\ Count(snap, LastKey) > 0) =>
         /\ store = snap
         /\ Len(CallsOf(next - 1)) = 1
         /\ CallsOf(next - 1)[1].op = "count"

C3_Witness ==
  /\ importer = "keep"
  /\ pc = "done"
  /\ Len(data) = 2
  /\ Count(store0, LastKey) > 0
  /\ Find(store0, LastKey) # LastConf
  /\ Find(store, LastKey) = Find(store0, LastKey)

(***************************************************************************)
(* C4: under merge, when the store holds an entry E for the key of the     *)
(* record C, the payload stored is the deep merge of E with C: it has the  *)
(* fields of both, a field of E alone keeps its value, and a field that is *)
(* a plain mapping in both is merged by the same rule, however deep; the   *)
(* example of the specification gives {key:a, nested:{x:1,y:99},           *)
(* other:keep}.                                                            *)
(***************************************************************************)
RECURSIVE DeepMerged(_, _, _)
DeepMerged(e, c, r) ==
  /\ IsPlainObject(r)
  /\ Fields(r) = Fields(e) \cup Fields(c)
  /\ \A f \in Fields(e) \ Fields(c) : r.v[f] = e.v[f]
  /\ \A f \in Fields(e) \cap Fields(c) :
       (IsPlainObject(e.v[f]) /\ IsPlainObject(c.v[f])) =>
         DeepMerged(e.v[f], c.v[f], r.v[f])

C4_MergeDeep ==
  (Completed /\ importer = "merge" /\ Count(snap, LastKey) > 0) =>
    /\ Count(store, LastKey) = 1
    /\ DeepMerged(Find(snap, LastKey), LastConf, Find(store, LastKey))
    /\ (snap = <<ExampleNestedEntry>> /\ LastConf = ExampleNestedConf) =>
         store = <<ExampleNestedResult>>

C4_Witness ==
  /\ Completed
  /\ importer = "merge"
  /\ snap = <<ExampleNestedEntry>>
  /\ LastConf = ExampleNestedConf
  /\ store = <<ExampleNestedResult>>

(***************************************************************************)
(* C5, as amended: under merge onto an existing entry E, for every field   *)
(* of the record C: a scalar or null of C is stored outright; a mapping of *)
(* C facing a scalar, a null or no value is stored outright; an array of C *)
(* facing anything but an array is stored outright; an array of C facing   *)
(* an array of E is merged with it index by index (the result is as long   *)
(* as the longer one, the elements of E beyond the length of C's array are *)
(* kept, and every element of C is combined with the element of E at its   *)
(* index by these same rules); a mapping of C facing an array of E does    *)
(* not replace it: its fields are merged into the array, which stays.      *)
(***************************************************************************)
RECURSIVE C5_FieldRule(_, _, _)
C5_FieldRule(e, c, r) ==
  /\ ~IsObject(c) => r = c
  /\ (IsPlainObject(c) /\ ~IsObject(e)) => r = c
  /\ (IsArray(c) /\ ~IsArray(e)) => r = c
  /\ (IsArray(c) /\ IsArray(e)) =>
       /\ IsArray(r)
       /\ Len(r.v) = Max(Len(e.v), Len(c.v))
       /\ \A i \in 1..Len(r.v) :
            IF i > Len(c.v) THEN r.v[i] = e.v[i]
            ELSE \/ (IsPlainObject(c.v[i]) /\ i <= Len(e.v) /\ IsPlainObject(e.v[i]))
                 \/ C5_FieldRule(IF i <= Len(e.v) THEN e.v[i] ELSE Undefined,
                                   c.v[i], r.v[i])
  /\ (IsPlainObject(c) /\ IsArray(e)) => r = e

C5_MergeNonMapping ==
  (Completed /\ importer = "merge" /\ Count(snap, LastKey) > 0) =>
    \A f \in Fields(LastConf) :
      /\ C5_FieldRule(Get(Find(snap, LastKey), f), LastConf.v[f],
                      Get(Find(store, LastKey), f))
      /\ (snap = <<ExampleScalarEntry>> /\ LastConf = ExampleScalarConf) =>
           Get(Find(store, LastKey), "value") = Map([nested |-> Bool(TRUE)])

C5_Witness ==
  /\ Completed
  /\ importer = "merge"
  /\ Get(Find(snap, LastKey), "value") = Arr(<<Num(1), Num(2)>>)
  /\ Get(LastConf, "value") = Arr(<<Num(2)>>)
  /\ Get(Find(store, LastKey), "value") = Arr(<<Num(2), Num(2)>>)

(***************************************************************************)
(* C5, as stated: under merge onto an existing entry, every field of the   *)
(* record whose value is not a plain mapping on both sides holds the       *)
(* record's value outright afterwards; an incoming array replaces an       *)
(* existing array wholesale.                                               *)
(***************************************************************************)
C5_Original ==
  (Completed /\ importer = "merge" /\ Count(snap, LastKey) > 0) =>
    \A f \in Fields(LastConf) :
      ~(IsPlainObject(Get(Find(snap, LastKey), f)) /\ IsPlainObject(LastConf.v[f]))
        => Get(Find(store, LastKey), f) = LastConf.v[f]

(***************************************************************************)
(* C6: a store that starts with at most one entry per key holds at most    *)
(* one entry per key after any import calls of a run, under every strategy *)
(* and for every input array: a create is issued only right after the read *)
(* of the same import call reported no entry for the key.                  *)
(***************************************************************************)
C6_OneEntryPerKey ==
  /\ \A i \in 1..Len(store) : Count(store, KeyOf(store[i])) = 1
  /\ \A p \in 1..Len(calls) :
       calls[p].op = "create" =>
         /\ p > 1
         /\ calls[p - 1].rec = calls[p].rec
         /\ calls[p - 1].op \in ReadOps
         /\ calls[p - 1].key = calls[p].key
         /\ calls[p - 1].ok
         /\ ~calls[p - 1].found

C6_Witness ==
  /\ pc = "done"
  /\ Len(data) = 2
  /\ KeyOf(data[1]) = KeyOf(data[2])
  /\ Count(store0, KeyOf(data[1])) = 0
  /\ Len(store0) = 1
  /\ Len(store) = 2

(***************************************************************************)
(* C7: when the input array holds several records with one key, the entry  *)
(* stored for that key at the end of a replace run is the last of them,    *)
(* and at the end of a keep run that did not find the key in the store it  *)
(* is the first of them.                                                   *)
(***************************************************************************)
Occurrences(k) == {i \in 1..Len(data) : KeyOf(data[i]) = k}
FirstOf(S) == CHOOSE i \in S : \A j \in S : i <= j
LastOf(S) == CHOOSE i \in S : \A j \in S : i >= j

C7_DuplicateKeys ==
  pc = "done" =>
    \A i \in 1..Len(data) :
      LET occ == Occurrences(KeyOf(data[i]))
      IN Cardinality(occ) > 1 =>
           /\ importer = "replace" =>
                Find(store, KeyOf(data[i])) = data[LastOf(occ)]
           /\ (importer = "keep" /\ Count(store0, KeyOf(data[i])) = 0) =>
                Find(store, KeyOf(data[i])) = data[FirstOf(occ)]

C7_Witness ==
  /\ pc = "done"
  /\ importer = "keep"
  /\ Len(data) = 2
  /\ KeyOf(data[1]) = KeyOf(data[2])
  /\ data[1] # data[2]
  /\ store0 = <<>>
  /\ store = <<data[1]>>

(***************************************************************************)
(* C8: the records are imported one at a time in input order: at most one  *)
(* import call is in flight, it is the call of the record the loop took    *)
(* last, the store calls appear in the order of the records, a record's    *)
(* read before its write, and no call of a record comes between the calls  *)
(* of another.                                                             *)
(***************************************************************************)
C8_OneAtATime ==
  /\ Cardinality(imp) <= 1
  /\ \A a \in imp : a.idx = next - 1
  /\ \A p \in 1..Len(calls) : calls[p].rec < next
  /\ \A p, q \in 1..Len(calls) :
       p < q =>
         /\ calls[p].rec <= calls[q].rec
         /\ calls[p].rec = calls[q].rec =>
              /\ q = p + 1
              /\ calls[p].op \in ReadOps
              /\ calls[q].op \in WriteOps

C8_Witness ==
  /\ Len(calls) = 4
  /\ calls[2].rec = 1 /\ calls[2].op \in WriteOps
  /\ calls[3].rec = 2 /\ calls[3].op \in ReadOps
  /\ calls[4].rec = 2

(***************************************************************************)
(* C9: when a store call fails during the import of a record, the command  *)
(* fails with that failure; the failed call is the last store call of the  *)
(* run (no call for a later record, no retry), nothing is reported, and    *)
(* the store is as it was when the import of that record started: the      *)
(* writes of the records before it stay.                                   *)
(***************************************************************************)
C9_StoreFailureHalts ==
  /\ \A p \in 1..Len(calls) :
       ~calls[p].ok =>
         /\ p = Len(calls)
         /\ calls[p].rec = next - 1
         /\ pc = "failed"
         /\ error = "StoreOperationFailure"
  /\ error = "StoreOperationFailure" =>
       /\ pc = "failed"
       /\ imp = {}
       /\ Len(calls) > 0 /\ ~calls[Len(calls)].ok
       /\ message = NoMessage
       /\ exitCode = NotExited
       /\ store = snap

C9_Witness ==
  /\ error = "StoreOperationFailure"
  /\ next = 3
  /\ Len(calls) = 4
  /\ calls[4].op = "update"
  /\ store # store0
  /\ store = snap

(***************************************************************************)
(* C10, as amended: input that is malformed JSON (empty input included) or *)
(* valid JSON that is no array makes the command fail with InvalidInput    *)
(* before any count, find, create or update call: the run issues no store  *)
(* call and leaves the store as it was.  The application, and with it the  *)
(* database manager the store is reached through, has been loaded by then. *)
(***************************************************************************)
InvalidContent == ~JSONParse(content).ok \/ JSONParse(content).value.t # "arr"

C11_UnknownStrategy ==
  (~InvalidContent /\ Strategy \notin {"replace", "merge", "keep"}) =>
    /\ calls = <<>>
    /\ store = store0
    /\ imp = {}
    /\ next = 1
    /\ importer = "none"
    /\ message = NoMessage
    /\ exitCode = NotExited
    /\ pc \in {"start", "load", "parse", "create_importer", "failed"}
    /\ pc = "failed" => (error = "UnsupportedStrategy" /\ detail = opt)

C11_Witness ==
  /\ opt = "foo"
  /\ pc = "failed"
  /\ error = "UnsupportedStrategy"
  /\ detail = "foo"
  /\ Len(data) = 2
  /\ calls = <<>>

(***************************************************************************)
(* C12: with an input array of n records, a recognized strategy and store  *)
(* calls that all succeed, the command ends with success: it reaches       *)
(* process.exit(0) after n import calls, each record read once; the        *)
(* message is logged once, when the last import has returned, and gives    *)
(* the count n, whatever the imports wrote, and the strategy.              *)
(***************************************************************************)
GoodRun == ~InvalidContent /\ Strategy \in {"replace", "merge", "keep"}
Reads == SelectSeq(calls, LAMBDA c : c.op \in ReadOps)

C12_Terminates ==
  /\ [](pc = "done" =>
          /\ GoodRun
          /\ exitCode = 0
          /\ error = "none"
          /\ imp = {}
          /\ next = Len(JSONParse(content).value.v) + 1
          /\ Len(Reads) = Len(JSONParse(content).value.v)
          /\ \A i \in 1..Len(Reads) : Reads[i].rec = i /\ Reads[i].ok
          /\ message = [count |-> Len(JSONParse(content).value.v), strategy |-> Strategy])
  /\ [][message' # message =>
          /\ message = NoMessage
          /\ imp = {}
          /\ next = Len(data) + 1
          /\ Len(calls) > 0 => calls[Len(calls)].ok]_vars
  /\ [](message # NoMessage => pc \in {"exit", "done"})
  /\ (GoodRun => <>(pc = "done" \/ error = "StoreOperationFailure"))

C12_Witness ==
  /\ pc = "done"
  /\ importer = "keep"
  /\ Len(data) = 2
  /\ Len(calls) = 3
  /\ message = [count |-> 2, strategy |-> "keep"]

(***************************************************************************)
(* C13: with the empty array as input and a recognized strategy the        *)
(* command does not fail, issues no store call, leaves the store as it was *)
(* and reports a count of 0 before it exits with status 0.                 *)
(***************************************************************************)
C13_EmptyArray ==
  (content = ArrayDoc(<<>>) /\ Strategy \in {"replace", "merge", "keep"}) =>
    /\ calls = <<>>
    /\ store = store0
    /\ imp = {}
    /\ next = 1
    /\ pc # "failed"
    /\ error = "none"
    /\ pc \in {"exit", "done"} => message = [count |-> 0, strategy |-> Strategy]
    /\ pc = "done" => exitCode = 0

C13_Witness ==
  /\ content = ArrayDoc(<<>>)
  /\ pc = "done"
  /\ exitCode = 0
  /\ message = [count |-> 0, strategy |-> "merge"]
  /\ calls = <<>>
  /\ Len(store) = 2

(***************************************************************************)
(* C14: under merge, when the first two records of the input have the same *)
(* key, the second is merged onto the entry as the first left it: after    *)
(* both, the one entry of that key is merge(merge(E, C1), C2) when the     *)
(* store held an entry E for the key before the run, and merge(C1, C2)     *)
(* when it held none.                                                      *)
(***************************************************************************)
C14_MergeDuplicates ==
  (/\ Completed
   /\ importer = "merge"
   /\ next = 3
   /\ KeyOf(data[1]) = KeyOf(data[2])) =>
    /\ Count(store, LastKey) = 1
    /\ Find(store, LastKey) =
         IF Count(store0, LastKey) > 0
           THEN Merge(Merge(Find(store0, LastKey), data[1]), data[2])
           ELSE Merge(data[1], data[2])

C14_Witness ==
  /\ Completed
  /\ importer = "merge"
  /\ next = 3
  /\ KeyOf(data[1]) = KeyOf(data[2])
  /\ Count(store0, LastKey) > 0
  /\ Has(data[1], "w")
  /\ ~Has(data[2], "w")
  /\ Has(Find(store, LastKey), "w")
  /\ Find(store, LastKey) # Merge(Find(store0, LastKey), data[2])

(***************************************************************************)
(* A run whose store calls all succeed, as a function of the strategy, the *)
(* collection and the records: the collection it leaves and the calls it   *)
(* issues, record by record.                                               *)
(***************************************************************************)
ImportOf(strategy, s, conf, i) ==
  LET k == KeyOf(conf)
      w == ImporterWrite(strategy,
                         IF ReadOp(strategy) = "count" THEN Count(s, k) ELSE 0,
                         IF ReadOp(strategy) = "find" THEN Find(s, k) ELSE Undefined,
                         conf)
      read == <<Call(ReadOp(strategy), k, i, TRUE, Count(s, k) > 0)>>
  IN CASE w.op = "create" ->
            [store |-> Create(s, w.payload),
             calls |-> read \o <<Call("create", k, i, TRUE, FALSE)>>]
       [] w.op = "update" ->
            [store |-> Update(s, k, w.payload),
             calls |-> read \o <<Call("update", k, i, TRUE, FALSE)>>]
       [] w.op = "none" -> [store |-> s, calls |-> read]

RECURSIVE RunOf(_, _, _, _)
RunOf(strategy, s, d, n) ==
  IF n = 0 THEN [store |-> s, calls |-> <<>>]
  ELSE LET before == RunOf(strategy, s, d, n - 1)
           step == ImportOf(strategy, before.store, d[n], n)
       IN [store |-> step.store, calls |-> before.calls \o step.calls]

(***************************************************************************)
(* C15: a command given no strategy behaves as one given replace: for      *)
(* every collection and every input array its store calls and the          *)
(* collection it leaves are those of the replace run, after every record   *)
(* and at the end; so are those of the command given replace.              *)
(***************************************************************************)
C15_DefaultIsReplace ==
  (opt \in {"undefined", "replace"}) =>
    /\ importer \in {"none", "replace"}
    /\ (pc \in {"exit", "done"} \/ Completed) =>
         /\ store = RunOf("replace", store0, data, next - 1).store
         /\ calls = RunOf("replace", store0, data, next - 1).calls
    /\ pc \in {"exit", "done"} => message.strategy = "replace"

C15_Witness ==
  /\ opt = "undefined"
  /\ pc = "done"
  /\ Len(data) = 2
  /\ Len(calls) = 4
  /\ calls[2].op = "update"
  /\ calls[4].op = "create"
  /\ store = RunOf("replace", store0, data, 2).store

(***************************************************************************)
(* C16: an import call that returned issued exactly one read, a count      *)
(* under replace and keep and a find under merge, before any write; under  *)
(* replace and merge it then issued exactly one write, an update when the  *)
(* read found an entry and a create otherwise; under keep it issued one    *)
(* create when the read found none and no write otherwise.  No import call *)
(* issues more than one write.                                             *)
(***************************************************************************)
Returned(i) == i < next - 1 \/ (i = next - 1 /\ imp = {} /\ pc # "failed")

C16_CallsPerImport ==
  \A i \in 1..(next - 1) :
    LET cs == CallsOf(i)
    IN /\ Len(SelectSeq(cs, LAMBDA c : c.op \in WriteOps)) <= 1
       /\ Len(SelectSeq(cs, LAMBDA c : c.op \in ReadOps)) <= 1
       /\ Returned(i) =>
            /\ Len(cs) >= 1
            /\ cs[1].op = (IF importer = "merge" THEN "find" ELSE "count")
            /\ \A p \in 1..Len(cs) : cs[p].ok
            /\ importer \in {"replace", "merge"} =>
                 /\ Len(cs) = 2
                 /\ cs[2].op = (IF cs[1].found THEN "update" ELSE "create")
            /\ importer = "keep" =>
                 IF cs[1].found THEN Len(cs) = 1
                 ELSE Len(cs) = 2 /\ cs[2].op = "create"

C16_Witness ==
  /\ pc = "done"
  /\ importer = "merge"
  /\ Len(data) = 2
  /\ Len(calls) = 4
  /\ calls[1].op = "find" /\ ~calls[1].found /\ calls[2].op = "create"
  /\ calls[3].op = "find" /\ calls[3].found /\ calls[4].op = "update"

(***************************************************************************)
(* C17: an import call reads and writes only the entry of its record's     *)
(* key: every store call carries that key, every entry of another key is   *)
(* after the call what it was before, and an entry that appears has the    *)
(* record's key.  No entry is ever removed, and after a successful run the *)
(* keys of the store are those it had before together with those of the    *)
(* input records.                                                          *)
(***************************************************************************)
KeysIn(s) == {KeyOf(s[i]) : i \in 1..Len(s)}

C17_OnlyOwnKey ==
  /\ \A p \in 1..Len(calls) : calls[p].key = KeyOf(data[calls[p].rec])
  /\ next > 1 =>
       /\ Len(store) >= Len(snap)
       /\ \A j \in 1..Len(snap) : KeyOf(snap[j]) # LastKey => store[j] = snap[j]
       /\ \A j \in 1..Len(snap) : KeyOf(store[j]) = KeyOf(snap[j])
       /\ \A j \in (Len(snap) + 1)..Len(store) : KeyOf(store[j]) = LastKey
  /\ Len(store) >= Len(store0)
  /\ KeysIn(store0) \subseteq KeysIn(store)
  /\ pc = "done" => KeysIn(store) = KeysIn(store0) \cup KeysIn(data)

C17_Witness ==
  /\ pc = "done"
  /\ importer = "replace"
  /\ Len(data) = 2
  /\ Len(store0) = 2
  /\ KeyOf(data[2]) = Str("b")
  /\ store[1] = store0[1]
  /\ store[2] # store0[2]

(***************************************************************************)
(* C18: import is idempotent under every strategy: importing a record a    *)
(* second time right after the first leaves the store as the first import  *)
(* left it, and restoring an array twice in a row leaves the store as      *)
(* restoring it once does.                                                 *)
(***************************************************************************)
C18_Idempotent ==
  /\ (Completed /\ next >= 3 /\ data[next - 1] = data[next - 2]) => store = snap
  /\ (/\ pc = "done"
      /\ Len(data) % 2 = 0
      /\ SubSeq(data, 1, Len(data) \div 2) = SubSeq(data, Len(data) \div 2 + 1, Len(data)))
       => store = RunOf(importer, store0, data, Len(data) \div 2).store

C18_Witness ==
  /\ pc = "done"
  /\ importer = "merge"
  /\ Len(data) = 2
  /\ data[1] = data[2]
  /\ Get(data[1], "value") = Arr(<<Num(2)>>)
  /\ Get(Find(store0, LastKey), "value") = Arr(<<Num(1), Num(2)>>)
  /\ Get(Find(store, LastKey), "value") = Arr(<<Num(2), Num(2)>>)

(***************************************************************************)
(* C19: when two restore commands run against the same store, each         *)
(* importing a record of the same key that the store does not hold, the    *)
(* store never holds two entries for that key, however their store calls   *)
(* interleave.                                                             *)
(***************************************************************************)
C19_OneEntryUnderConcurrency ==
  (/\ peer.pc # "none"
   /\ Len(data) = 1
   /\ KeyOf(data[1]) = KeyOf(peer.conf)
   /\ Count(store0, KeyOf(peer.conf)) = 0)
    => Count(store, KeyOf(peer.conf)) <= 1

====
